---------------------------- MODULE Spec2Model ----------------------------
(***************************************************************************)
(* A model of deployment_utils.py of the Typesense Kubernetes operator:    *)
(* validate_spec, the five deploy functions, cleanup, and the reconcile    *)
(* sequence that drives them against a Kubernetes cluster.                 *)
(*                                                                         *)
(* Python values.  A dict is a function whose domain is a set of strings,  *)
(* a str is a string, an int is an integer, and None is the record None    *)
(* below.  Python's truth test is IsTrue* per type: an empty dict, None,   *)
(* "" and 0 are false.                                                     *)
(***************************************************************************)
EXTENDS Integers, Sequences, FiniteSets, TLC

VARIABLES
    op_spec,    \* the argument of validate_spec (a dict with the key 'new')
    validated,  \* the outcome of the last validate_spec call, or NotCalled
    cluster,    \* the live state of the Kubernetes cluster, per namespace
    calls,      \* the client calls issued by the invocation in progress
    raised,     \* the exception the last invocation raised, or NoError
    pc,         \* the position of reconcile: the step to run next
    isUpdate,   \* the isUpdate argument of the reconcile in progress
    failure,    \* the exception the client raised in this invocation, or NoFailure
    invoked,    \* the function invoked last, with its arguments
    applied,    \* per namespace, what the last deploy_configmap that returned
                \* normally was called with (None: there is none)
    history     \* what reconcile remembers of the call before this one

vars == <<op_spec, validated, cluster, calls, raised, pc, isUpdate, failure,
          invoked, applied, history>>

---------------------------------------------------------------------------
(* Bounds of the model.                                                    *)

\* Replica counts the inputs name explicitly are 1..MaxReplicas.
MaxReplicas == 2

---------------------------------------------------------------------------
(* Python values.                                                          *)

None == [None |-> TRUE]

EmptyDict == [k \in {} |-> ""]

IsNone(v) == "None" \in DOMAIN v

\* bool(v) for a value that is a dict or None
IsTrueDict(v) == DOMAIN v # {} /\ ~IsNone(v)

\* d.get(k, default)
Get(d, k, default) == IF k \in DOMAIN d THEN d[k] ELSE default

\* bool(d.get(k)) for a key whose value is a dict (or None)
GetTrueDict(d, k) == k \in DOMAIN d /\ IsTrueDict(d[k])

\* bool(d.get(k)) for a key whose value is a str
GetTrueStr(d, k) == k \in DOMAIN d /\ d[k] # ""

\* bool(d.get(k)) for a key whose value is an int
GetTrueInt(d, k) == k \in DOMAIN d /\ d[k] # 0

\* d[k] = v
Put(d, k, v) == (k :> v) @@ d

\* The dicts with no key or with the key k, its value drawn from vals.
Optional(k, vals) == {EmptyDict} \cup {k :> v : v \in vals}

---------------------------------------------------------------------------
(* validate_spec                                                           *)

Returned(value) == [raised |-> FALSE, message |-> "", value |-> value]

Raises(message) == [raised |-> TRUE, message |-> message, value |-> None]

\* Lines 18-24: the requests / limits check.  It reads 'requests', 'limits',
\* 'memory' and 'cpu' from spec itself, not from spec['resources'].
ResourcesError(spec) ==
    IF GetTrueDict(spec, "resources")
    THEN IF GetTrueDict(spec, "requests")
              /\ (~GetTrueStr(spec, "memory") \/ GetTrueStr(spec, "cpu"))
         THEN "Memory or cpu is missing under requests"
         ELSE IF GetTrueDict(spec, "limits")
                   /\ (~GetTrueStr(spec, "memory") \/ GetTrueStr(spec, "cpu"))
              THEN "Memory or cpu is missing under limits"
              ELSE ""
    ELSE ""

\* Lines 33-35: a storageClass that is true must have a true name and size.
StorageError(spec) ==
    IF GetTrueDict(spec, "storageClass")
         /\ (~GetTrueStr(spec["storageClass"], "name")
               \/ ~GetTrueStr(spec["storageClass"], "size"))
    THEN "Missing storageClass name or size"
    ELSE ""

\* Lines 25-32: the fields read with their defaults.
SpecDefaults(spec) ==
    LET d1 == Put(EmptyDict, "namespace", Get(spec, "namespace", "typesense"))
        d2 == Put(d1, "image", Get(spec, "image", "typesense/typesense"))
        d3 == Put(d2, "resources", Get(spec, "resources", None))
        d4 == Put(d3, "host", Get(spec, "host", "typesense.dwbn.local"))
        d5 == Put(d4, "nodeSelector", Get(spec, "nodeSelector", None))
        d6 == Put(d5, "clusterdomain", Get(spec, "clusterdomain", "cluster.local"))
    IN  Put(d6, "replicas", Get(spec, "replicas", 3))

\* Lines 36-37: the storage fields, copied when storageClass is true.
SpecStorage(spec, return_data) ==
    IF GetTrueDict(spec, "storageClass")
    THEN Put(Put(return_data, "storageClassName", spec["storageClass"]["name"]),
             "storage", spec["storageClass"]["size"])
    ELSE return_data

\* Lines 39-40: the password, set only when config is true.
SpecPassword(config, return_data) ==
    IF IsTrueDict(config)
    THEN Put(return_data, "password", Get(config, "password", "297beb01dd21c"))
    ELSE return_data

\* Lines 14-41.
validate_spec(arg) ==
    LET spec == Get(arg["new"], "spec", None)
        config == Get(arg["new"], "config", None)
    IN  IF IsTrueDict(spec)
        THEN IF ResourcesError(spec) # ""
             THEN Raises(ResourcesError(spec))
             ELSE IF StorageError(spec) # ""
                  THEN Raises(StorageError(spec))
                  ELSE Returned(SpecPassword(config,
                                    SpecStorage(spec, SpecDefaults(spec))))
        ELSE Returned(SpecPassword(config, EmptyDict))

---------------------------------------------------------------------------
(* The Kubernetes cluster behind the API client.                           *)
(*                                                                         *)
(* cluster[n] is the live state of namespace n: whether it exists and the  *)
(* objects in it, each None when absent.  A create of an object that       *)
(* exists is refused (409), as is a create in a namespace that does not    *)
(* exist (404) and a patch or delete of an object that does not exist      *)
(* (404).  A patch merges the keys of its body into the live object.       *)
(* Deleting a namespace deletes what it contains.                          *)

Namespaces == {"typesense", "prod"}

Kinds == {"configmap", "statefulset", "service", "headless", "ingress"}

NoNamespace ==
    [exists |-> FALSE, configmap |-> None, statefulset |-> None,
     service |-> None, headless |-> None, ingress |-> None]

EmptyCluster == [n \in Namespaces |-> NoNamespace]

\* A client call: the verb, the kind of object, the namespace argument and
\* the name argument (a patch or a delete names its object, a create does not).
Call(verb, kind, namespace, name) ==
    [verb |-> verb, kind |-> kind, namespace |-> namespace, name |-> name]

ApiException(body) == [type |-> "ApiException", text |-> body]

OtherException(text) == [type |-> "Exception", text |-> text]

Ok(cl) == [ok |-> TRUE, cluster |-> cl, exc |-> OtherException("")]

Failed(cl, exc) == [ok |-> FALSE, cluster |-> cl, exc |-> exc]

\* What the platform can be made to do to a call: nothing, or fail it with
\* an ApiException or with another exception (a connection error).
NoFault == "none"

FaultKinds == {"ApiException", "Exception"}

FaultException(fault) ==
    IF fault = "ApiException"
    THEN ApiException("500 Internal Server Error")
    ELSE OtherException("Connection refused")

\* POST /api/v1/namespaces
ApiCreateNamespace(cl, name) ==
    IF cl[name].exists
    THEN Failed(cl, ApiException("409 AlreadyExists"))
    ELSE Ok([cl EXCEPT ![name].exists = TRUE])

\* DELETE /api/v1/namespaces/{name}
ApiDeleteNamespace(cl, name) ==
    IF ~cl[name].exists
    THEN Failed(cl, ApiException("404 NotFound"))
    ELSE Ok([cl EXCEPT ![name] = NoNamespace])

\* POST of an object of the given kind in a namespace
ApiCreate(cl, kind, namespace, body) ==
    IF ~cl[namespace].exists
    THEN Failed(cl, ApiException("404 NotFound"))
    ELSE IF ~IsNone(cl[namespace][kind])
         THEN Failed(cl, ApiException("409 AlreadyExists"))
         ELSE Ok([cl EXCEPT ![namespace][kind] = body])

\* PATCH of the named object of the given kind in a namespace
ApiPatch(cl, kind, namespace, body) ==
    IF ~cl[namespace].exists \/ IsNone(cl[namespace][kind])
    THEN Failed(cl, ApiException("404 NotFound"))
    ELSE Ok([cl EXCEPT ![namespace][kind] = body @@ @])

\* One call through the client, with the platform's fault applied to it.
Client(cl, call, body, fault) ==
    IF fault # NoFault
    THEN Failed(cl, FaultException(fault))
    ELSE CASE call.kind = "namespace" /\ call.verb = "create" ->
                  ApiCreateNamespace(cl, call.name)
           [] call.kind = "namespace" /\ call.verb = "delete" ->
                  ApiDeleteNamespace(cl, call.name)
           [] call.kind # "namespace" /\ call.verb = "create" ->
                  ApiCreate(cl, call.kind, call.namespace, body)
           [] OTHER ->
                  ApiPatch(cl, call.kind, call.namespace, body)

---------------------------------------------------------------------------
(* The outcome of one function of deployment_utils: the cluster it leaves, *)
(* the client calls it issued, in order, and the message of the exception  *)
(* it raised (the pieces of its f-string, in order), NoError if none.      *)

NoError == <<>>

NoFailure == OtherException("")

\* The entry a call leaves in the log: the call, the body sent, how it ended.
Logged(call, body, res) == [call |-> call, body |-> body, ok |-> res.ok]

\* res is the result of the last call issued.
Outcome(res, issued, message) ==
    [cluster |-> res.cluster, calls |-> issued, raised |-> message,
     failure |-> IF res.ok THEN NoFailure ELSE res.exc]

\* except ApiException as e: raise Exception(f"Kubernets Api Exception - K: {e.body} ")
\* except Exception as e:    raise Exception(f"Exception k: {e}")
Wrapped(apiPrefix, otherPrefix, exc) ==
    IF exc.type = "ApiException"
    THEN <<apiPrefix, exc.text, " ">>
    ELSE <<otherPrefix, exc.text>>

---------------------------------------------------------------------------
(* The templates the functions load (templates/*.yaml): only what the      *)
(* functions leave of them in the bodies they send.                        *)

\* metadata.name of templates/namespace.yaml
namespace_yaml_name == "typesense"

\* data.nodes of templates/configmap.yaml
configmap_yaml_nodes == ""

---------------------------------------------------------------------------
(* create_modify_namespace                                                 *)

\* Lines 58-59: the name of the namespace that is created.
NamespaceName(namespace) ==
    IF namespace # "default" THEN namespace ELSE namespace_yaml_name

\* Lines 64-69: the ApiException is wrapped by the inner handler and the
\* exception that raises is wrapped again by the outer one.
NamespaceError(exc) ==
    IF exc.type = "ApiException"
    THEN <<"Exception namespace: ", "Kubernets Api Exception - Namespace: ", exc.text>>
    ELSE <<"Exception namespace: ", exc.text>>

\* Lines 50-69.
create_modify_namespace(cl, namespace, fault) ==
    LET call == Call("create", "namespace", "", NamespaceName(namespace))
        res  == Client(cl, call, EmptyDict, fault)
    IN  Outcome(res, <<Logged(call, EmptyDict, res)>>,
                IF res.ok THEN NoError ELSE NamespaceError(res.exc))

---------------------------------------------------------------------------
(* deploy_configmap                                                        *)

\* Line 159: one peer address.
NodeAddress(count, namespace, clusterdomain) ==
    "typesense-" \o ToString(count) \o ".ts." \o namespace \o ".svc."
        \o clusterdomain \o ":8107:8108"

\* Lines 157-159 with range(1, replicas + 1): the indices start at 1.
NodesFromOne(replicas, namespace, clusterdomain) ==
    [i \in 1..replicas |-> NodeAddress(i, namespace, clusterdomain)]

\* Lines 157-159 with range(0, 3): the default count, whatever replicas is.
NodesOfDefaultCount(replicas, namespace, clusterdomain) ==
    [i \in 1..3 |-> NodeAddress(i - 1, namespace, clusterdomain)]

\* Lines 157-159: for count in range(0, int(replicas)): nodes.append(...)
Nodes(replicas, namespace, clusterdomain) ==
    [i \in 1..replicas |-> NodeAddress(i - 1, namespace, clusterdomain)]

\* sep.join(seq)
RECURSIVE Join(_, _)
Join(sep, seq) ==
    IF seq = <<>> THEN ""
    ELSE IF Len(seq) = 1 THEN seq[1]
         ELSE seq[1] \o sep \o Join(sep, Tail(seq))

\* Lines 155-160: the body sent.  A replicas that is false (0, None) leaves
\* the template's data.nodes.
ConfigmapBody(replicas, namespace, clusterdomain) ==
    [namespace |-> namespace,
     nodes |-> IF replicas # 0
               THEN Join(",", Nodes(replicas, namespace, clusterdomain))
               ELSE configmap_yaml_nodes]

\* Lines 161-166 without the update branch: always a create.
ConfigmapCallCreateOnly(namespace, update) ==
    Call("create", "configmap", namespace, "")

\* Lines 161-166: patch the config map "nodeslist" on update, else create.
ConfigmapCall(namespace, update) ==
    IF update
    THEN Call("patch", "configmap", namespace, "nodeslist")
    ELSE Call("create", "configmap", namespace, "")

\* Lines 168-173 with the exception logged and not raised again.
ConfigmapErrorSwallowed(exc) == NoError

\* Lines 168-173.
ConfigmapError(exc) ==
    Wrapped("Kubernets Api Exception - Configmap: ", "Exception configmap: ", exc)

\* Lines 146-173.
deploy_configmap(cl, replicas, namespace, update, clusterdomain, fault) ==
    LET configuration == ConfigmapBody(replicas, namespace, clusterdomain)
        call == ConfigmapCall(namespace, update)
        res  == Client(cl, call, configuration, fault)
    IN  Outcome(res, <<Logged(call, configuration, res)>>,
                IF res.ok THEN NoError ELSE ConfigmapError(res.exc))

---------------------------------------------------------------------------
(* deploy_typesense_statefulset                                            *)

\* Values datetime.datetime.utcnow().isoformat() can give (line 125).
Times == {"2026-01-01T00:00:00", "2026-01-02T00:00:00"}

NoKeys == EmptyDict

\* Lines 86-111: a volume claim template of the storage class, or the
\* emptyDir volume "data" appended to the template's volumes.
StatefulsetVolume(spec) ==
    IF GetTrueStr(spec, "storageClassName")
    THEN "volumeClaimTemplates" :>
             [storageClassName |-> spec["storageClassName"],
              storage |-> spec["storage"]]
    ELSE "volumes" :> [name |-> "data", sizeLimit |-> "500Mi"]

\* Lines 113-122: the fields overlaid when the spec's value is true.
StatefulsetFields(spec) ==
    (IF GetTrueStr(spec, "image") THEN "image" :> spec["image"] ELSE NoKeys)
    @@ (IF GetTrueDict(spec, "resources")
        THEN "resources" :> spec["resources"] ELSE NoKeys)
    @@ (IF GetTrueDict(spec, "nodeSelector")
        THEN "nodeSelector" :> spec["nodeSelector"] ELSE NoKeys)
    @@ (IF GetTrueStr(spec, "password")
        THEN "password" :> spec["password"] ELSE NoKeys)
    @@ (IF GetTrueInt(spec, "replicas")
        THEN "replicas" :> spec["replicas"] ELSE NoKeys)

\* Lines 86-126: the body sent; an update stamps the restart annotation.
StatefulsetBody(spec, update, now) ==
    StatefulsetVolume(spec)
    @@ ("namespace" :> spec["namespace"])
    @@ StatefulsetFields(spec)
    @@ (IF update THEN "restartedAt" :> now ELSE NoKeys)

\* Lines 123-131: patch the stateful set "typesense" on update, else create.
StatefulsetCall(namespace, update) ==
    IF update
    THEN Call("patch", "statefulset", namespace, "typesense")
    ELSE Call("create", "statefulset", namespace, "")

\* Lines 132-137.
StatefulsetError(exc) ==
    Wrapped("Kubernets Api Exception - Statefulset: ", "Exception statefulset: ", exc)

\* Lines 78-137.
deploy_typesense_statefulset(cl, spec, update, now, fault) ==
    LET configuration == StatefulsetBody(spec, update, now)
        call == StatefulsetCall(spec["namespace"], update)
        res  == Client(cl, call, configuration, fault)
    IN  Outcome(res, <<Logged(call, configuration, res)>>,
                IF res.ok THEN NoError ELSE StatefulsetError(res.exc))

---------------------------------------------------------------------------
(* deploy_service                                                          *)

\* Lines 214-219.
ServiceError(exc) ==
    Wrapped("Kubernets Api Exception - Service: ", "Exception service: ", exc)

\* Lines 182-219 with the first create's exception dropped: the headless
\* service is created whatever became of the routable one.
deploy_service_both(cl, namespace, fault1, fault2) ==
    LET body  == [namespace |-> namespace]
        call1 == Call("create", "service", namespace, "")
        res1  == Client(cl, call1, body, fault1)
        call2 == Call("create", "headless", namespace, "")
        res2  == Client(res1.cluster, call2, body, fault2)
    IN  Outcome(res2, <<Logged(call1, body, res1), Logged(call2, body, res2)>>,
                IF res2.ok THEN NoError ELSE ServiceError(res2.exc))

\* Lines 182-219: the service, then the headless service; the first
\* exception ends the function.
deploy_service(cl, namespace, fault1, fault2) ==
    LET body  == [namespace |-> namespace]
        call1 == Call("create", "service", namespace, "")
        res1  == Client(cl, call1, body, fault1)
        call2 == Call("create", "headless", namespace, "")
        res2  == Client(res1.cluster, call2, body, fault2)
    IN  IF ~res1.ok
        THEN Outcome(res1, <<Logged(call1, body, res1)>>, ServiceError(res1.exc))
        ELSE Outcome(res2, <<Logged(call1, body, res1), Logged(call2, body, res2)>>,
                     IF res2.ok THEN NoError ELSE ServiceError(res2.exc))

---------------------------------------------------------------------------
(* deploy_ingress                                                          *)

\* Lines 235-236.
IngressBody(namespace, host) == [namespace |-> namespace, host |-> host]

\* Lines 238-243: patch the ingress "typesense" on update, else create.
IngressCall(namespace, update) ==
    IF update
    THEN Call("patch", "ingress", namespace, "typesense")
    ELSE Call("create", "ingress", namespace, "")

\* Lines 246-251.
IngressError(exc) ==
    Wrapped("Kubernets Api Exception - Ingress: ", "Exception Ingress: ", exc)

\* Lines 228-251.
deploy_ingress(cl, namespace, host, update, fault) ==
    LET configuration == IngressBody(namespace, host)
        call == IngressCall(namespace, update)
        res  == Client(cl, call, configuration, fault)
    IN  Outcome(res, <<Logged(call, configuration, res)>>,
                IF res.ok THEN NoError ELSE IngressError(res.exc))

---------------------------------------------------------------------------
(* cleanup                                                                 *)

\* Lines 262-267.
CleanupError(exc) ==
    Wrapped("Kubernets Api Exception - Cleanup: ", "Exception Cleanup: ", exc)

\* Lines 260-267.
cleanup(cl, namespace, fault) ==
    LET call == Call("delete", "namespace", "", namespace)
        res  == Client(cl, call, EmptyDict, fault)
    IN  Outcome(res, <<Logged(call, EmptyDict, res)>>,
                IF res.ok THEN NoError ELSE CleanupError(res.exc))

---------------------------------------------------------------------------
(* The inputs of validate_spec: op_spec['new'] with an optional 'spec' and *)
(* an optional 'config'.  Every key of spec is optional.  Besides the keys *)
(* of the documented schema the inputs carry the top-level 'requests',     *)
(* 'limits', 'memory' and 'cpu' keys that lines 19-24 read.                *)

\* A requests or limits block: memory, cpu or both.
ResourceBlocks ==
    {m @@ c : m \in Optional("memory", {"512Mi"}), c \in Optional("cpu", {"500m"})}
        \ {EmptyDict}

ResourcesDicts ==
    {rq @@ lm : rq \in Optional("requests", ResourceBlocks),
                lm \in Optional("limits", ResourceBlocks)}

StorageClasses ==
    {n @@ z : n \in Optional("name", {"fast"}), z \in Optional("size", {"10Gi"})}

\* The keys of the schema.
SchemaSpecs ==
    {ns @@ im @@ ho @@ cd @@ re @@ rs @@ sc :
        ns \in Optional("namespace", {"prod"}),
        im \in Optional("image", {"typesense/typesense:0.25.1"}),
        ho \in Optional("host", {"search.example.com"}),
        cd \in Optional("clusterdomain", {"k8s.internal"}),
        re \in Optional("replicas", 1..MaxReplicas),
        rs \in Optional("resources", ResourcesDicts),
        sc \in Optional("storageClass", StorageClasses)}

NodeSelectors == Optional("nodeSelector", {[disktype |-> "ssd"]})

\* Keys outside the schema, at the top level of spec.
StrayKeys ==
    {EmptyDict,
     [requests |-> [cpu |-> "500m"]],
     [requests |-> [cpu |-> "500m"], memory |-> "512Mi"],
     [limits |-> [cpu |-> "1"], memory |-> "512Mi"],
     [limits |-> [cpu |-> "1"], memory |-> "512Mi", cpu |-> "500m"]}

\* A spec with stray keys has no node selector (to bound the inputs).
SpecDicts ==
    {s @@ n : s \in SchemaSpecs, n \in NodeSelectors}
        \cup {s @@ x : s \in SchemaSpecs, x \in StrayKeys}

ConfigDicts == {EmptyDict, [password |-> "s3cret"]}

RawSpecs ==
    {[new |-> s @@ c] : s \in Optional("spec", SpecDicts),
                        c \in Optional("config", ConfigDicts)}

NotCalled == [raised |-> FALSE, message |-> "not called", value |-> None]

NoInvocation == [fn |-> "", args |-> EmptyDict]

Invocation(fn, args) == [fn |-> fn, args |-> args]

NoSnapshot == [nodes |-> "", image |-> "", host |-> ""]

NoHistory ==
    [retry |-> FALSE, full |-> FALSE, twice |-> FALSE, firstRaised |-> FALSE,
     first |-> NoSnapshot]

NothingApplied == [n \in Namespaces |-> None]

\* validate_spec is applied to one input.
InitValidate ==
    /\ op_spec \in RawSpecs
    /\ validated = NotCalled
    /\ cluster = EmptyCluster
    /\ calls = <<>>
    /\ raised = NoError
    /\ pc = "validate"
    /\ isUpdate = FALSE
    /\ failure = NoFailure
    /\ invoked = NoInvocation
    /\ applied = NothingApplied
    /\ history = NoHistory

Validate ==
    /\ pc = "validate"
    /\ validated' = validate_spec(op_spec)
    /\ pc' = IF validated'.raised THEN "raised" ELSE "returned"
    /\ invoked' = Invocation("validate_spec", [op_spec |-> op_spec])
    /\ UNCHANGED <<op_spec, cluster, calls, raised, isUpdate, failure, applied,
                   history>>

NextValidate == Validate

SpecValidate == InitValidate /\ [][NextValidate]_vars

---------------------------------------------------------------------------
(* The functions called one at a time, in any order and with any           *)
(* arguments, against a cluster that starts empty.                         *)

\* The platform's choice for one call.
Faults == {NoFault} \cup FaultKinds

\* The platform's choice for a call of a function called by itself.
CallFaults == {NoFault, "ApiException"}

ClusterDomains == {"cluster.local", "k8s.internal"}

\* Per namespace, the replicas and clusterdomain of the last deploy_configmap
\* that returned.  (A record of the run, kept for the claims: the functions
\* do not read it.)
Applied(r, namespace, replicas, clusterdomain) ==
    IF r.raised = NoError
    THEN [applied EXCEPT ![namespace] =
             [replicas |-> replicas, clusterdomain |-> clusterdomain]]
    ELSE applied

\* One invocation from outside reconcile: it leaves its own outcome.
Invoke(r, fn, args) ==
    /\ cluster' = r.cluster
    /\ calls' = r.calls
    /\ raised' = r.raised
    /\ failure' = r.failure
    /\ invoked' = Invocation(fn, args)
    /\ UNCHANGED <<op_spec, validated, pc, isUpdate, history>>

Init ==
    /\ op_spec = [new |-> EmptyDict]
    /\ validated = NotCalled
    /\ cluster = EmptyCluster
    /\ calls = <<>>
    /\ raised = NoError
    /\ pc = "idle"
    /\ isUpdate = FALSE
    /\ failure = NoFailure
    /\ invoked = NoInvocation
    /\ applied = NothingApplied
    /\ history = NoHistory

CallNamespace(namespaces) ==
    \E namespace \in namespaces, fault \in CallFaults :
        /\ Invoke(create_modify_namespace(cluster, namespace, fault),
                  "create_modify_namespace", [namespace |-> namespace])
        /\ UNCHANGED applied

CallConfigmap(namespaces, counts, domains) ==
    \E replicas \in counts, namespace \in namespaces,
       update \in BOOLEAN, clusterdomain \in domains, fault \in CallFaults :
        LET args == [replicas |-> replicas, namespace |-> namespace,
                     update |-> update, clusterdomain |-> clusterdomain,
                     \* the replicas applied in the namespace before this call
                     previous |-> Get(applied[namespace], "replicas", 0)]
            r == deploy_configmap(cluster, replicas, namespace, update,
                                  clusterdomain, fault)
        IN  /\ Invoke(r, "deploy_configmap", args)
            /\ applied' = Applied(r, namespace, replicas, clusterdomain)

CallCleanup(namespaces) ==
    \E namespace \in namespaces, fault \in CallFaults :
        LET r == cleanup(cluster, namespace, fault)
        IN  /\ Invoke(r, "cleanup", [namespace |-> namespace])
            /\ applied' = IF r.raised = NoError
                          THEN [applied EXCEPT ![namespace] = None]
                          ELSE applied

\* The namespace and the config map functions, over every namespace.
NextConfigmap ==
    \/ CallNamespace(Namespaces \cup {"default"})
    \/ CallConfigmap(Namespaces, 0..MaxReplicas, ClusterDomains)
    \/ CallCleanup(Namespaces)

SpecConfigmap == Init /\ [][NextConfigmap]_vars

\* The resolved specs the stateful set is deployed from: the defaults, and
\* another image with a storage class.
StatefulsetSpecs ==
    {validate_spec([new |-> [spec |-> s]]).value :
        s \in {[replicas |-> MaxReplicas],
               [image |-> "typesense/typesense:0.25.1",
                storageClass |-> [name |-> "fast", size |-> "10Gi"]]}}

Hosts == {"typesense.dwbn.local", "search.example.com"}

CallStatefulset(specs) ==
    \E spec \in specs, update \in BOOLEAN, now \in Times, fault \in CallFaults :
        /\ Invoke(deploy_typesense_statefulset(cluster, spec, update, now, fault),
                  "deploy_typesense_statefulset",
                  [namespace |-> spec["namespace"], update |-> update])
        /\ UNCHANGED applied

CallService(namespaces) ==
    \E namespace \in namespaces, fault1 \in CallFaults, fault2 \in CallFaults :
        /\ Invoke(deploy_service(cluster, namespace, fault1, fault2),
                  "deploy_service", [namespace |-> namespace])
        /\ UNCHANGED applied

CallIngress(namespaces) ==
    \E namespace \in namespaces, host \in Hosts, update \in BOOLEAN,
       fault \in CallFaults :
        /\ Invoke(deploy_ingress(cluster, namespace, host, update, fault),
                  "deploy_ingress",
                  [namespace |-> namespace, host |-> host, update |-> update])
        /\ UNCHANGED applied

\* Every function, in the default namespace of the spec.
NextCalls ==
    \/ CallNamespace({"typesense"})
    \/ CallConfigmap({"typesense"}, {MaxReplicas}, {"cluster.local"})
    \/ CallStatefulset(StatefulsetSpecs)
    \/ CallService({"typesense"})
    \/ CallIngress({"typesense"})
    \/ CallCleanup({"typesense"})

SpecCalls == Init /\ [][NextCalls]_vars

---------------------------------------------------------------------------
(* reconcile(raw, isUpdate): validate, then the namespace, the discovery   *)
(* config, the stateful workload, the service pair and the ingress route,  *)
(* each step run only when the one before it returned.  An exception ends  *)
(* the call.  The caller runs one reconcile or cleanup at a time.          *)

\* The specs reconcile is called with: an empty one, one that sets the
\* replicas only, one that sets every field, and one whose storage block
\* has no size.
ReconcileSpecs ==
    {[new |-> [spec |-> EmptyDict, config |-> EmptyDict]],
     [new |-> [spec |-> [replicas |-> MaxReplicas]]],
     [new |-> [spec |-> [namespace |-> "prod", replicas |-> 1,
                         image |-> "typesense/typesense:0.25.1",
                         host |-> "search.example.com",
                         storageClass |-> [name |-> "fast", size |-> "10Gi"]],
               config |-> [password |-> "s3cret"]]],
     [new |-> [spec |-> [storageClass |-> [name |-> "fast"]]]]}

\* The ResolvedSpec of the reconcile in progress.
Resolved == validated.value

\* What the claims observe of the deployment in a namespace.
Live(cl, namespace) ==
    [nodes |-> Get(cl[namespace].configmap, "nodes", ""),
     image |-> Get(cl[namespace].statefulset, "image", ""),
     host  |-> Get(cl[namespace].ingress, "host", "")]

\* The namespace and every resource of the deployment exist.
Deployed(cl, namespace) ==
    /\ cl[namespace].exists
    /\ \A kind \in Kinds : ~IsNone(cl[namespace][kind])

Finished == pc \in {"idle", "done", "raised"}

\* The platform was made to fail a call of this invocation.
Injected ==
    failure \in {FaultException("ApiException"), FaultException("Exception")}

\* What a new reconcile call remembers of the call before it: whether it
\* retries a call that failed in a platform step, whether the deployment
\* existed when it started, and whether it is the second of two update
\* calls with the same spec on an existing deployment.
Remembered(raw, update, outcome) ==
    LET same == pc \in {"done", "raised"} /\ op_spec = raw /\ isUpdate = update
        full == ~outcome.raised /\ "namespace" \in DOMAIN outcome.value
                  /\ Deployed(cluster, outcome.value["namespace"])
        twice == same /\ update /\ history.full /\ full /\ ~Injected
    IN  [retry |-> same /\ pc = "raised" /\ calls # <<>>,
         full |-> full,
         twice |-> twice,
         firstRaised |-> twice /\ pc = "raised",
         first |-> IF twice THEN Live(cluster, outcome.value["namespace"])
                   ELSE NoSnapshot]

\* Step 1: validate.  A spec that does not resolve to a namespace ends the
\* call before any client call.
Reconcile ==
    \E raw \in ReconcileSpecs, update \in BOOLEAN :
        LET outcome == validate_spec(raw)
        IN  /\ Finished
            /\ op_spec' = raw
            /\ isUpdate' = update
            /\ validated' = outcome
            /\ calls' = <<>>
            /\ failure' = NoFailure
            /\ invoked' = Invocation("validate_spec", [update |-> update])
            /\ history' = Remembered(raw, update, outcome)
            /\ raised' = IF outcome.raised THEN <<outcome.message>>
                         ELSE IF "namespace" \notin DOMAIN outcome.value
                              THEN <<"KeyError: ", "namespace">>
                              ELSE NoError
            /\ pc' = IF raised' = NoError THEN "namespace" ELSE "raised"
            /\ UNCHANGED <<cluster, applied>>

\* One step of reconcile: the function's outcome, and the step that follows.
Step(r, fn, next) ==
    /\ cluster' = r.cluster
    /\ calls' = calls \o r.calls
    /\ raised' = r.raised
    /\ failure' = r.failure
    /\ invoked' = Invocation(fn, [update |-> isUpdate])
    /\ pc' = IF r.raised = NoError THEN next ELSE "raised"
    /\ UNCHANGED <<op_spec, validated, isUpdate, history>>

\* Step 2.
ReconcileNamespace ==
    /\ pc = "namespace"
    /\ \E fault \in Faults :
           Step(create_modify_namespace(cluster, Resolved["namespace"], fault),
                "create_modify_namespace", "configmap")
    /\ UNCHANGED applied

\* Step 3.
ReconcileConfigmap ==
    /\ pc = "configmap"
    /\ \E fault \in Faults :
           LET r == deploy_configmap(cluster, Resolved["replicas"],
                                     Resolved["namespace"], isUpdate,
                                     Resolved["clusterdomain"], fault)
           IN  /\ Step(r, "deploy_configmap", "statefulset")
               /\ applied' = Applied(r, Resolved["namespace"], Resolved["replicas"],
                                     Resolved["clusterdomain"])

\* Step 4.
ReconcileStatefulset ==
    /\ pc = "statefulset"
    /\ \E now \in Times, fault \in Faults :
           Step(deploy_typesense_statefulset(cluster, Resolved, isUpdate, now, fault),
                "deploy_typesense_statefulset", "service")
    /\ UNCHANGED applied

\* Step 5.
ReconcileService ==
    /\ pc = "service"
    /\ \E fault1 \in Faults, fault2 \in Faults :
           Step(deploy_service(cluster, Resolved["namespace"], fault1, fault2),
                "deploy_service", "ingress")
    /\ UNCHANGED applied

\* Step 6.
ReconcileIngress ==
    /\ pc = "ingress"
    /\ \E fault \in Faults :
           Step(deploy_ingress(cluster, Resolved["namespace"], Resolved["host"],
                               isUpdate, fault),
                "deploy_ingress", "done")
    /\ UNCHANGED applied

\* cleanup(namespace), between two reconcile calls.
Cleanup ==
    /\ Finished
    /\ \E namespace \in Namespaces, fault \in Faults :
           LET r == cleanup(cluster, namespace, fault)
           IN  /\ cluster' = r.cluster
               /\ calls' = r.calls
               /\ raised' = r.raised
               /\ failure' = r.failure
               /\ invoked' = Invocation("cleanup", [namespace |-> namespace])
               /\ applied' = IF r.raised = NoError
                             THEN [applied EXCEPT ![namespace] = None]
                             ELSE applied
    /\ pc' = "idle"
    /\ history' = NoHistory
    /\ UNCHANGED <<op_spec, validated, isUpdate>>

Next ==
    \/ Reconcile
    \/ ReconcileNamespace
    \/ ReconcileConfigmap
    \/ ReconcileStatefulset
    \/ ReconcileService
    \/ ReconcileIngress
    \/ Cleanup

Spec == Init /\ [][Next]_vars

---------------------------------------------------------------------------
(* The claims about validate_spec, under SpecValidate.                     *)

\* The 'spec' section of the input, when the input has one.
HasSpec == "spec" \in DOMAIN op_spec["new"]

InputSpec == op_spec["new"]["spec"]

\* The input's spec has the keys of the schema only.
WellFormed == DOMAIN InputSpec \cap {"requests", "limits", "memory", "cpu"} = {}

DocumentedDefaults ==
    [namespace |-> "typesense", image |-> "typesense/typesense",
     host |-> "typesense.dwbn.local", clusterdomain |-> "cluster.local"]

\* C1: when validate_spec returns for an input that has a 'spec' and a
\* 'config' section, every one of namespace, image, host, clusterDomain and
\* replicas that the spec omits is in the result with its documented default
\* (so an empty spec resolves to typesense, typesense/typesense,
\* typesense.dwbn.local, cluster.local and 3).
C1_DefaultPropagation ==
    (pc = "returned" /\ HasSpec /\ "config" \in DOMAIN op_spec["new"]) =>
        LET value == validated.value
        IN  /\ \A f \in DOMAIN DocumentedDefaults :
                  f \notin DOMAIN InputSpec =>
                      (f \in DOMAIN value /\ value[f] = DocumentedDefaults[f])
            /\ "replicas" \notin DOMAIN InputSpec =>
                   ("replicas" \in DOMAIN value /\ value["replicas"] = 3)

\* A requests or limits block that provides one of memory and cpu only.
OneOfTwo(block) == ("memory" \in DOMAIN block) # ("cpu" \in DOMAIN block)

ResourceMessages ==
    {"Memory or cpu is missing under requests",
     "Memory or cpu is missing under limits"}

\* C2: validate_spec raises for every spec whose resources.requests or
\* resources.limits block provides cpu without memory or memory without cpu,
\* and raises no resources error for a spec whose requests and limits blocks
\* each provide both.
C2_ResourcesChecked ==
    (pc # "validate" /\ HasSpec /\ WellFormed /\ "resources" \in DOMAIN InputSpec) =>
        LET resources == InputSpec["resources"]
            blocks == {resources[k] : k \in DOMAIN resources}
        IN  /\ (\E b \in blocks : OneOfTwo(b)) => validated.raised
            /\ (DOMAIN resources = {"requests", "limits"}
                  /\ \A b \in blocks : DOMAIN b = {"memory", "cpu"})
               => validated.message \notin ResourceMessages

\* C3: validate_spec raises for every spec whose storage block is present
\* without a name or without a size; for a storage block with both it
\* returns and the resolved storage class name and size are the input's;
\* without a storage block the result has neither field.
C3_StorageChecked ==
    (pc # "validate" /\ HasSpec /\ WellFormed) =>
        LET value == validated.value
        IN  IF "storageClass" \in DOMAIN InputSpec
            THEN LET storage == InputSpec["storageClass"]
                 IN  IF {"name", "size"} \subseteq DOMAIN storage
                     THEN /\ ~validated.raised
                          /\ "storageClassName" \in DOMAIN value
                          /\ value["storageClassName"] = storage["name"]
                          /\ "storage" \in DOMAIN value
                          /\ value["storage"] = storage["size"]
                     ELSE validated.raised
            ELSE ~validated.raised =>
                     /\ "storageClassName" \notin DOMAIN value
                     /\ "storage" \notin DOMAIN value

---------------------------------------------------------------------------
(* The claims about the discovery list, under SpecConfigmap.               *)

\* The documented address of the peer with index i.
DocumentedAddress(i, namespace, clusterdomain) ==
    "typesense-" \o ToString(i) \o ".ts." \o namespace \o ".svc."
        \o clusterdomain \o ":8107:8108"

\* The documented list for n >= 1 replicas: the addresses 0..n-1, in order,
\* with a comma between two of them.
RECURSIVE DocumentedList(_, _, _)
DocumentedList(n, namespace, clusterdomain) ==
    IF n = 1
    THEN DocumentedAddress(0, namespace, clusterdomain)
    ELSE DocumentedList(n - 1, namespace, clusterdomain) \o ","
             \o DocumentedAddress(n - 1, namespace, clusterdomain)

TwoDefaultNodes ==
    "typesense-0.ts.typesense.svc.cluster.local:8107:8108,typesense-1.ts.typesense.svc.cluster.local:8107:8108"

\* C4: the list deploy_configmap sends for n >= 1 replicas is the comma-joined
\* sequence of n entries, entry i being the documented address of index i,
\* for i = 0..n-1 in increasing order, no index twice and none missing; for
\* 2 replicas and the defaults it is the documented string.
C4_DiscoveryList ==
    (invoked.fn = "deploy_configmap" /\ invoked.args.replicas >= 1) =>
        LET n == invoked.args.replicas
            namespace == invoked.args.namespace
            clusterdomain == invoked.args.clusterdomain
            nodes == Nodes(n, namespace, clusterdomain)
            sent == calls[1].body.nodes
        IN  /\ Len(nodes) = n
            /\ \A i \in 0..(n - 1) :
                   nodes[i + 1] = DocumentedAddress(i, namespace, clusterdomain)
            /\ \A i, j \in 1..n : i # j => nodes[i] # nodes[j]
            /\ sent = DocumentedList(n, namespace, clusterdomain)
            /\ (n = 2 /\ namespace = "typesense" /\ clusterdomain = "cluster.local")
                   => sent = TwoDefaultNodes

\* deploy_configmap created the config map for 2 replicas with the defaults.
C4_Witness ==
    /\ invoked.fn = "deploy_configmap"
    /\ invoked.args = [replicas |-> 2, namespace |-> "typesense", update |-> FALSE,
                       clusterdomain |-> "cluster.local", previous |-> 0]
    /\ raised = NoError
    /\ cluster["typesense"].configmap.nodes = TwoDefaultNodes

\* C9: after a create and any number of updates of the config map of a
\* namespace that returned, the last of them for nk >= 1 replicas, the live
\* list is the documented list for nk: it has the entries 0..nk-1 and none
\* of an earlier count.
C9_ScalingConsistency ==
    \A namespace \in Namespaces :
        (~IsNone(applied[namespace]) /\ applied[namespace].replicas >= 1) =>
            /\ ~IsNone(cluster[namespace].configmap)
            /\ cluster[namespace].configmap.nodes =
                   DocumentedList(applied[namespace].replicas, namespace,
                                  applied[namespace].clusterdomain)

\* An update scaled the config map of a namespace down to one replica.
C9_Witness ==
    /\ invoked.fn = "deploy_configmap"
    /\ invoked.args.update
    /\ raised = NoError
    /\ invoked.args.previous > invoked.args.replicas
    /\ invoked.args.replicas = 1
    /\ cluster[invoked.args.namespace].configmap.nodes =
           DocumentedAddress(0, invoked.args.namespace, invoked.args.clusterdomain)

---------------------------------------------------------------------------
(* The claim about the calls of each function, under SpecCalls.            *)

\* The one call a function that patches on update is to issue.
PatchOrCreate(kind, name, args) ==
    IF args.update
    THEN Call("patch", kind, args.namespace, name)
    ELSE Call("create", kind, args.namespace, "")

CallsOf == [i \in 1..Len(calls) |-> calls[i].call]

---------------------------------------------------------------------------
(* The claims about reconcile, under Spec.                                 *)

\* C5: two reconcile calls in a row with isUpdate = true and the same valid
\* spec, on a cluster where the deployment exists and with no platform
\* failure, both return, and the live discovery list, workload image and
\* ingress host after the second are those after the first.
C5_UpdateIdempotent ==
    (pc \in {"done", "raised"} /\ history.twice /\ ~Injected) =>
        /\ ~history.firstRaised
        /\ pc = "done"
        /\ Live(cluster, Resolved["namespace"]) = history.first

\* C6: a reconcile call that repeats, with the same spec and isUpdate, a call
\* that failed in a platform step does not raise unless the platform is made
\* to fail again: it does not fail on what already exists.
C6_RetryReturns ==
    (history.retry /\ ~Injected) => pc # "raised"

ApplyOrder ==
    <<"namespace", "configmap", "statefulset", "service", "headless", "ingress">>

\* C7: the calls of a reconcile are issued in the order namespace, discovery
\* config, workload, service, headless service, ingress, each after the one
\* before it returned; so in every namespace the workload exists only if
\* the discovery config does, and the ingress only if the discovery config,
\* the workload and both services do.
C7_ApplyOrdering ==
    /\ \A namespace \in Namespaces :
           LET has(kind) == ~IsNone(cluster[namespace][kind])
           IN  /\ has("statefulset") => has("configmap")
               /\ has("ingress") => /\ has("configmap")
                                    /\ has("statefulset")
                                    /\ has("service")
                                    /\ has("headless")
    /\ invoked.fn # "cleanup" =>
           /\ Len(calls) <= Len(ApplyOrder)
           /\ \A i \in 1..Len(calls) : calls[i].call.kind = ApplyOrder[i]
           /\ \A i \in 1..(Len(calls) - 1) : calls[i].ok

\* A reconcile returned and left the whole deployment in its namespace.
C7_Witness ==
    /\ pc = "done"
    /\ Len(calls) = 6
    /\ Deployed(cluster, "prod")

\* The words with which each function names its resource in an exception.
ErrorLabels ==
    [create_modify_namespace |-> {"Exception namespace: "},
     deploy_configmap |-> {"Kubernets Api Exception - Configmap: ",
                           "Exception configmap: "},
     deploy_typesense_statefulset |-> {"Kubernets Api Exception - Statefulset: ",
                                       "Exception statefulset: "},
     deploy_service |-> {"Kubernets Api Exception - Service: ",
                         "Exception service: "},
     deploy_ingress |-> {"Kubernets Api Exception - Ingress: ",
                         "Exception Ingress: "},
     cleanup |-> {"Kubernets Api Exception - Cleanup: ", "Exception Cleanup: "}]

\* The object a call names is in the cluster.
Present(call) ==
    IF call.kind = "namespace"
    THEN cluster[call.name].exists
    ELSE ~IsNone(cluster[call.namespace][call.kind])

\* C8: when the client fails a call, the function raises an exception that
\* names its resource and carries the client's cause, and the call does not
\* go on: the failed call is the last one issued, every call before it
\* returned and what those calls created is still there; the headless
\* service is created only after the create of the routable one returned.
C8_FailureShortCircuit ==
    /\ failure # NoFailure =>
           /\ raised # NoError
           /\ pc \in {"raised", "idle"}
           /\ raised[1] \in ErrorLabels[invoked.fn]
           /\ \E i \in 2..Len(raised) : raised[i] = failure.text
           /\ ~calls[Len(calls)].ok
    /\ failure = NoFailure => \A i \in 1..Len(calls) : calls[i].ok
    /\ \A i \in 1..(Len(calls) - 1) : calls[i].ok
    /\ \A i \in 1..Len(calls) :
           (calls[i].ok /\ calls[i].call.verb = "create") => Present(calls[i].call)
    /\ \A i \in 1..Len(calls) :
           calls[i].call.kind = "headless" =>
               /\ i > 1
               /\ calls[i - 1].call.kind = "service"
               /\ calls[i - 1].ok

\* The create of the headless service failed: the call raised, and the
\* namespace, the discovery config, the workload and the routable service
\* created before it are still there.
C8_Witness ==
    /\ pc = "raised"
    /\ invoked.fn = "deploy_service"
    /\ Len(calls) = 5
    /\ ~calls[5].ok
    /\ LET live == cluster[Resolved["namespace"]]
       IN  /\ live.exists
           /\ ~IsNone(live.configmap)
           /\ ~IsNone(live.statefulset)
           /\ ~IsNone(live.service)
           /\ IsNone(live.headless)
           /\ IsNone(live.ingress)

=============================================================================
